---- MODULE Spec2Model ----
(***************************************************************************)
(* Glycanaut: the spectral analysis pipeline of src/app.py,                *)
(* src/glycanaut/utils/analysis.py, mono.py and plotting.py.               *)
(*                                                                         *)
(* Masses (m/z values, reference masses, tolerances) are integers counted  *)
(* in steps of 1/StepsPerDa Dalton; comparisons the code makes on floats   *)
(* are made here on these exact grid values.  A pandas table is a sequence *)
(* of records (one per row), a column is a record field, a missing cell    *)
(* (NaN) is the value NaN / NoChargeState.  Strings that the code builds   *)
(* by concatenation (names, symbols, ion types) are sequences of tokens,   *)
(* so that += is \o.                                                       *)
(***************************************************************************)
EXTENDS Integers, Sequences, FiniteSets, TLC

\* ------------------------------------------------------------------------
\* Bounds of the model
\* ------------------------------------------------------------------------
MaxPeaks == 3          \* rows of an uploaded peak list
MaxSpectrumPeaks == 4  \* rows of a preprocessed peak table handed to the analysis
MaxLength == 3         \* largest chain length (the app's slider goes to 8)
StepsPerDa == 100      \* grid steps per Dalton

RawMz == {0, 50, 150, 200}
Intensities == {-1, 1, 2}
ThresholdPcts == {1, 50, 99}
Ranges == {<<0, 200>>, <<50, 150>>}
IsotopeTols == {50, 100, 150}
SpectrumMz == {0, 50, 150, 200, 1450, 1900}
MassTols == {50, 100}

\* ------------------------------------------------------------------------
\* Program constants
\* ------------------------------------------------------------------------
H20_MASS == 1801           \* 18.010565 Da, as it acts on masses rounded to 2 decimals
ChargeTolInv == 1000       \* tol = 1e-3 in prune_isotopes
MaxCharge == 5             \* charge_states = range(1, 6)
NoChargeState == 0         \* a "Charge State" cell that was never written (NaN)
GraphTooBig == 30          \* app.py: len(df_diffs_assigned) > 30
NaN == "NaN"

\* ------------------------------------------------------------------------
\* Helpers
\* ------------------------------------------------------------------------
Abs(x) == IF x < 0 THEN -x ELSE x

Range(s) == {s[i] : i \in DOMAIN s}

SetMin(S) == CHOOSE x \in S : \A y \in S : x <= y

SetMax(S) == CHOOSE x \in S : \A y \in S : x >= y

RECURSIVE Flatten(_)
Flatten(ss) == IF ss = <<>> THEN <<>> ELSE Head(ss) \o Flatten(Tail(ss))

\* Sequences over S of length 0..n
SeqsUpTo(S, n) == UNION {[1..k -> S] : k \in 0..n}

\* Stable insertion of the keyed row r into a sequence of keyed rows sorted
\* ascending by key.
RECURSIVE InsertSorted(_, _)
InsertSorted(r, s) ==
    IF s = <<>> THEN <<r>>
    ELSE IF r.key < Head(s).key THEN <<r>> \o s
    ELSE <<Head(s)>> \o InsertSorted(r, Tail(s))

RECURSIVE SortKeyed(_)
SortKeyed(s) ==
    IF s = <<>> THEN <<>>
    ELSE InsertSorted(s[Len(s)], SortKeyed(SubSeq(s, 1, Len(s) - 1)))

\* sort_values(col, ascending): tables of fewer than 16 rows are sorted by insertion,
\* which keeps rows of equal key in their original order.
sort_values(df, col, ascending) ==
    LET sign == IF ascending THEN 1 ELSE -1
        keyed == [i \in DOMAIN df |-> [key |-> sign * df[i][col], row |-> df[i]]]
        sorted == SortKeyed(keyed)
    IN  [i \in DOMAIN df |-> sorted[i].row]

\* ------------------------------------------------------------------------
\* Peak Preprocessor (analysis.py: threshold_peaks, prune_isotopes)
\* ------------------------------------------------------------------------
Peak(mz, intensity) ==
    [mz |-> mz, Intensity |-> intensity, ChargeState |-> NoChargeState]

\* threshold_peaks taking the percentage from the top: Intensity > (1 - threshold * 0.01) * max
threshold_peaks_from_top(df, threshold, m_z_range) ==
    IF df = <<>> THEN <<>>
    ELSE LET max_intensity == SetMax({df[i].Intensity : i \in DOMAIN df})
             Keep(p) == /\ 100 * p.Intensity > (100 - threshold) * max_intensity
                        /\ p.mz >= m_z_range[1]
                        /\ p.mz <= m_z_range[2]
         IN  SelectSeq(df, Keep)

\* df[df["Intensity"] > threshold * 0.01 * max_intensity], then the range mask
threshold_peaks(df, threshold, m_z_range) ==
    IF df = <<>> THEN <<>>
    ELSE LET max_intensity == SetMax({df[i].Intensity : i \in DOMAIN df})
             Keep(p) == /\ 100 * p.Intensity > threshold * max_intensity
                        /\ p.mz >= m_z_range[1]
                        /\ p.mz <= m_z_range[2]
         IN  SelectSeq(df, Keep)

\* the scan with an inclusive bound: abs(...) <= isotope_tol
ScannedInclusive(s, i, isotope_tol) ==
    {j \in (i + 1)..Len(s) :
        \A k \in (i + 1)..j : Abs(s[i].mz - s[k].mz) <= isotope_tol}

\* the rows j scanned by the while loop started at row i of the sorted table s
Scanned(s, i, isotope_tol) ==
    {j \in (i + 1)..Len(s) :
        \A k \in (i + 1)..j : Abs(s[i].mz - s[k].mz) < isotope_tol}

\* abs((1 / z) - diff) <= tol, with diff = d / StepsPerDa and tol = 1 / ChargeTolInv
ChargeFits(z, d) == ChargeTolInv * Abs(StepsPerDa - z * d) <= z * StepsPerDa

\* the value written to df.loc[i, "Charge State"]
ChargeOf(s, i, isotope_tol) ==
    LET diffs == {Abs(s[i].mz - s[j].mz) : j \in Scanned(s, i, isotope_tol)}
        matches == {z \in 1..MaxCharge : \A d \in diffs : ChargeFits(z, d)}
    IN  IF matches = {} THEN 1 ELSE SetMin(matches)

\* prune_isotopes without its sort_values("m/z")
UnsortedByMz(df) == df

SortedByMz(df) == sort_values(df, "mz", TRUE)

prune_isotopes(df, isotope_tol) ==
    LET s == SortedByMz(df)
        n == Len(s)
        \* for i in range(len(df) - 1): rows 1..n-1 here
        to_drop == UNION {Scanned(s, i, isotope_tol) : i \in 1..(n - 1)}
        charged == [i \in 1..n |->
                      IF i <= n - 1
                      THEN [s[i] EXCEPT !.ChargeState = ChargeOf(s, i, isotope_tol)]
                      ELSE s[i]]
        RECURSIVE Kept(_)
        Kept(i) == IF i > n THEN <<>>
                   ELSE (IF i \in to_drop THEN <<>> ELSE <<charged[i]>>) \o Kept(i + 1)
    IN  Kept(1)

preprocess_data(df, threshold, m_z_range, isotope_tol) ==
    prune_isotopes(threshold_peaks(df, threshold, m_z_range), isotope_tol)

\* ------------------------------------------------------------------------
\* Reference Builder (mono.py)
\* ------------------------------------------------------------------------
\* pandas fills a cell of a column the row does not have with NaN
Cell(row, col) == IF col \in DOMAIN row THEN row[col] ELSE NaN

\* the columns of a reference table as make_df_mono returns it (a table that
\* lost all its rows keeps them)
RefColumns == {"Name", "Symbol", "mz", "IonType", "Type"}

Columns(rows) == IF rows = <<>> THEN RefColumns ELSE DOMAIN rows[1]

\* pd.concat([a, b]): the rows of a then the rows of b, over the union of the columns
pd_concat(a, b) ==
    LET cols == Columns(a) \cup Columns(b)
        Widen(r) == [c \in cols |-> Cell(r, c)]
    IN  [i \in 1..Len(a) |-> Widen(a[i])] \o [i \in 1..Len(b) |-> Widen(b[i])]

\* the fixed modification table; its kind column is spelled "type"
MODS ==
    << [Name |-> <<"Acetylation">>, mz |-> 4201, Symbol |-> <<"Ac">>,
        IonType |-> <<>>, type |-> "Modification"],
       [Name |-> <<"Methylation">>, mz |-> 1402, Symbol |-> <<"Me">>,
        IonType |-> <<>>, type |-> "Modification"],
       [Name |-> <<"Phosphorylation">>, mz |-> 7997, Symbol |-> <<"Ph">>,
        IonType |-> <<>>, type |-> "Modification"],
       [Name |-> <<"Sulfonation">>, mz |-> 7996, Symbol |-> <<"Su">>,
        IonType |-> <<>>, type |-> "Modification"] >>

make_b_y_df_mono(rows) ==
    LET df_mono_b == [i \in DOMAIN rows |->
                        [rows[i] EXCEPT !.Symbol = @ \o <<"b">>,
                                        !.Name = @ \o <<"(B)">>,
                                        !.IonType = <<"B">>]]
        df_mono_y == [i \in DOMAIN rows |->
                        [rows[i] EXCEPT !.mz = @ + H20_MASS,
                                        !.Symbol = @ \o <<"y">>,
                                        !.Name = @ \o <<"(Y)">>,
                                        !.IonType = <<"Y">>]]
    IN  df_mono_b \o df_mono_y

\* a reference row as make_df_mono leaves it (mass already reduced by water
\* and rounded to the grid, "Ion Type" = "")
RefRow(name, symbol, mass) ==
    [Name |-> <<name>>, Symbol |-> <<symbol>>, mz |-> mass,
     IonType |-> <<>>, Type |-> "Monosaccharide"]

RowA == RefRow("A", "a", 50)

RowB == RefRow("B", "b", 100)

References == {<<>>, <<RowA>>, <<RowB>>, <<RowA, RowB>>, <<RowB, RowA>>}

\* a reference table object: its rows and which column is its index
Table(rows) == [rows |-> rows, index |-> "RangeIndex"]

\* ------------------------------------------------------------------------
\* Difference Engine (analysis.py: analyse_spectrum, lines 139-176)
\* ------------------------------------------------------------------------
\* df_mono[abs(df_mono["m/z"] - diff) < mass_tol]
WithinTol(rows, diff, mass_tol) ==
    LET Near(r) == Abs(r.mz - diff) < mass_tol IN SelectSeq(rows, Near)

\* df_mono["m/z"].min(); a comparison with the NaN of an empty table is False
ReachesMin(rows, diff) ==
    rows # <<>> /\ diff >= SetMin({rows[i].mz : i \in DOMAIN rows})

NoMatch == <<"No match">>

TooSmall == <<"Too small">>

\* the record of the pair (a, b): lines 145-173
DiffRecord(a, b, rows, mass_tol) ==
    LET diff == Abs(a - b)
        mono_sacc == WithinTol(rows, diff, mass_tol)
        blank == [Peak1 |-> a, Peak2 |-> b, PeakDifference |-> diff,
                  AssignedMass |-> 0, Assigned |-> NoMatch, AssignedSymbol |-> <<>>,
                  IonType |-> <<>>, Type |-> "", Length |-> 1]
    IN  IF ReachesMin(rows, diff)
        THEN IF mono_sacc # <<>>
             THEN LET row == mono_sacc[1]
                  IN  [blank EXCEPT !.AssignedMass = row.mz,
                                    !.Assigned = row.Name,
                                    !.AssignedSymbol = row.Symbol,
                                    !.IonType = row.IonType,
                                    !.Type = row.Type]
             ELSE blank
        ELSE [blank EXCEPT !.Assigned = TooSmall]

\* the pairs of neighbouring rows only: zip(df, df[1:]) for combinations(df, 2)
NeighbourPairs(n) == [i \in 1..(n - 1) |-> <<i, i + 1>>]

\* itertools.combinations(range(n), 2), in its order
Pairs(n) ==
    LET RECURSIVE From(_, _)
        From(i, j) == IF i >= n THEN <<>>
                      ELSE IF j > n THEN From(i + 1, i + 2)
                      ELSE <<<<i, j>>>> \o From(i, j + 1)
    IN  From(1, 2)

\* the list `data` after the loop over combinations(df["m/z"], 2)
compute_differences(df, rows, mass_tol) ==
    LET pairs == Pairs(Len(df))
    IN  [k \in DOMAIN pairs |->
           DiffRecord(df[pairs[k][1]].mz, df[pairs[k][2]].mz, rows, mass_tol)]

\* ------------------------------------------------------------------------
\* Polysaccharide Assigner (analysis.py: generate_polysaccharides,
\* assign_polysaccharides)
\* ------------------------------------------------------------------------
\* itertools.combinations_with_replacement(range(lo, n + 1), r), in its order
RECURSIVE CombosFrom(_, _, _)
CombosFrom(lo, n, r) ==
    IF r = 0 THEN << <<>> >>
    ELSE IF lo > n THEN <<>>
    ELSE LET rest == CombosFrom(lo, n, r - 1)
         IN  [k \in DOMAIN rest |-> <<lo>> \o rest[k]] \o CombosFrom(lo + 1, n, r)

\* df_mono.set_index("Name", inplace=True)
set_index_Name(table) == [table EXCEPT !.index = "Name"]

\* df_mono.loc[mono_sacc] on the table indexed by Name
Loc(rows, name) == rows[CHOOSE i \in DOMAIN rows : rows[i].Name = name]

\* one generated chain: lines 70-88
PolyItem(rows, monosaccharide_list, poly_sacc) ==
    LET unit(k) == Loc(rows, monosaccharide_list[poly_sacc[k]])
        n == Len(poly_sacc)
        RECURSIVE Sum(_)
        Sum(k) == IF k = 0 THEN 0 ELSE Sum(k - 1) + unit(k).mz
        name == Flatten([k \in 1..n |-> unit(k).Name \o <<"+">>])
        symbol == Flatten([k \in 1..n |-> unit(k).Symbol \o <<"+">>])
    IN  [Name |-> SubSeq(name, 1, Len(name) - 1),
         Symbol |-> SubSeq(symbol, 1, Len(symbol) - 1),
         mz |-> Sum(n),
         IonType |-> Flatten([k \in 1..n |-> unit(k).IonType]),
         length |-> n,
         Type |-> "Polysaccharide"]

\* chains of exactly `length` units only: range(length, length + 1)
generate_longest_only(rows, monosaccharide_list, length) ==
    LET polysaccharides == CombosFrom(1, Len(monosaccharide_list), length)
    IN  [k \in DOMAIN polysaccharides |->
            PolyItem(rows, monosaccharide_list, polysaccharides[k])]

\* the table of chains of 2..length units of monosaccharide_list
generate_polysaccharides(rows, monosaccharide_list, length) ==
    LET polysaccharides ==
            Flatten([r \in 1..(length - 1) |->
                        CombosFrom(1, Len(monosaccharide_list), r + 1)])
    IN  [k \in DOMAIN polysaccharides |->
            PolyItem(rows, monosaccharide_list, polysaccharides[k])]

\* Series.unique(): the distinct values in order of first appearance
RECURSIVE Unique(_)
Unique(s) ==
    IF s = <<>> THEN <<>>
    ELSE LET front == Unique(SubSeq(s, 1, Len(s) - 1))
         IN  IF s[Len(s)] \in Range(front) THEN front ELSE front \o <<s[Len(s)]>>

IsAssigned(rec) == rec.AssignedMass # 0

IsUnassigned(rec) == rec.AssignedMass = 0

\* the names assigned at chain length 1: lines 103-105
Alphabet(df_diffs) ==
    LET assigned == SelectSeq(df_diffs, IsAssigned)
    IN  Unique([i \in DOMAIN assigned |-> assigned[i].Assigned])

\* one row of df_diffs after the loop of lines 107-120
PolyAssign(rec, df_poly, mass_tol) ==
    LET diff == rec.PeakDifference
        poly_sacc == WithinTol(df_poly, diff, mass_tol)
    IN  IF rec.AssignedMass # 0 THEN rec
        ELSE IF ReachesMin(df_poly, diff) /\ poly_sacc # <<>>
        THEN LET poly_row == poly_sacc[1]
             IN  [rec EXCEPT !.Assigned = poly_row.Name,
                             !.AssignedSymbol = poly_row.Symbol,
                             !.AssignedMass = poly_row.mz,
                             !.IonType = poly_row.IonType,
                             !.Length = poly_row.length,
                             !.Type = poly_row.Type]
        ELSE rec

\* does the chain stage run (line 102)
RunsChains(length) == length > 1

\* df_poly["m/z"] of a chain table built from no chain has no such column:
\* the first unassigned row raises KeyError (line 111)
PolyKeyError(df_diffs, length) ==
    /\ RunsChains(length)
    /\ Alphabet(df_diffs) = <<>>
    /\ \E i \in DOMAIN df_diffs : IsUnassigned(df_diffs[i])

\* df_diffs as assign_polysaccharides leaves it (when it does not raise)
assign_polysaccharides(df_diffs, rows, length, mass_tol) ==
    IF RunsChains(length)
    THEN LET df_poly == generate_polysaccharides(rows, Alphabet(df_diffs), length)
         IN  [i \in DOMAIN df_diffs |-> PolyAssign(df_diffs[i], df_poly, mass_tol)]
    ELSE df_diffs

\* the rows of df that are in no assigned record: lines 194-197
Unmatched(df, df_diffs_assigned) ==
    LET Free(p) == /\ \A i \in DOMAIN df_diffs_assigned : df_diffs_assigned[i].Peak1 # p.mz
                   /\ \A i \in DOMAIN df_diffs_assigned : df_diffs_assigned[i].Peak2 # p.mz
    IN  SelectSeq(df, Free)

\* df_diffs_unassigned.drop(columns=[...]): lines 183-193
DropAssignment(recs) ==
    [i \in DOMAIN recs |->
        [Peak1 |-> recs[i].Peak1, Peak2 |-> recs[i].Peak2,
         PeakDifference |-> recs[i].PeakDifference]]

\* the reference rows the run matches against: lines 141-142
LocalReference(rows, use_mods, use_b_y) ==
    LET by == IF use_b_y THEN make_b_y_df_mono(rows) ELSE rows
    IN  IF use_mods THEN pd_concat(by, MODS) ELSE by

\* the run works on the caller's table object itself when neither flag
\* replaces it by a new table
SharesCallerTable(use_mods, use_b_y) == ~use_mods /\ ~use_b_y

\* analyse_spectrum as a whole: the outcome and what it leaves behind
analyse_spectrum(df, table, mass_tol, length, use_mods, use_b_y) ==
    LET rows == LocalReference(table.rows, use_mods, use_b_y)
        data == compute_differences(df, rows, mass_tol)
        sorted == sort_values(data, "AssignedMass", FALSE)
        mutated == IF RunsChains(length) /\ SharesCallerTable(use_mods, use_b_y)
                   THEN set_index_Name(table) ELSE table
        none == [status |-> "None", df_diffs |-> <<>>, df_diffs_assigned |-> <<>>,
                 df_diffs_unassigned |-> <<>>, df_unmatched |-> <<>>, df_mono |-> table]
    IN  IF data = <<>> THEN none
        ELSE IF PolyKeyError(sorted, length)
        THEN [none EXCEPT !.status = "KeyError", !.df_mono = mutated]
        ELSE LET df_diffs == assign_polysaccharides(sorted, rows, length, mass_tol)
                 assigned == SelectSeq(df_diffs, IsAssigned)
             IN  [status |-> "ok",
                  df_diffs |-> df_diffs,
                  df_diffs_assigned |-> assigned,
                  df_diffs_unassigned |-> DropAssignment(SelectSeq(df_diffs, IsUnassigned)),
                  df_unmatched |-> Unmatched(df, assigned),
                  df_mono |-> mutated]

\* ------------------------------------------------------------------------
\* Backbone Extractor (plotting.py: plot_peak_diff_graph)
\* ------------------------------------------------------------------------
Backbone == "#669673"

Branch == "grey"

\* nx.from_pandas_edgelist(df_assigned[df_assigned["Type"] != "Modification"], ...)
GraphEdges(df_assigned) ==
    {{df_assigned[i].Peak1, df_assigned[i].Peak2} :
        i \in {k \in DOMAIN df_assigned : df_assigned[k].Type # "Modification"}}

GraphNodes(edges) == UNION edges

Neighbours(edges, v) == {w \in GraphNodes(edges) : {v, w} \in edges /\ w # v}

\* breadth-first search from the frontier: the number of edges to target,
\* or -1 when the search runs dry
RECURSIVE BfsDistance(_, _, _, _, _)
BfsDistance(edges, frontier, seen, target, d) ==
    IF target \in frontier THEN d
    ELSE IF frontier = {} THEN -1
    ELSE LET next == UNION {Neighbours(edges, v) : v \in frontier} \ seen
         IN  BfsDistance(edges, next, seen \cup next, target, d + 1)

\* the paths without a repeated node from source to target, of any length
AnySimplePaths(edges, source, target) ==
    {p \in UNION {[1..k -> GraphNodes(edges)] : k \in 1..Cardinality(GraphNodes(edges))} :
        /\ p[1] = source
        /\ p[Len(p)] = target
        /\ \A i, j \in DOMAIN p : i # j => p[i] # p[j]
        /\ \A i \in 1..(Len(p) - 1) : {p[i], p[i + 1]} \in edges}

\* the results nx.shortest_path(G, source, target) can return
ShortestPaths(edges, source, target) ==
    LET d == BfsDistance(edges, {source}, {source}, target, 0)
    IN  IF d < 0 THEN {}
        ELSE {p \in [1..(d + 1) -> GraphNodes(edges)] :
                /\ p[1] = source
                /\ p[d + 1] = target
                /\ \A i \in 1..d : {p[i], p[i + 1]} \in edges}

\* backbone_edges = list(zip(backbone[:-1], backbone[1:]))
BackboneEdges(backbone) == {<<backbone[i], backbone[i + 1]>> : i \in 1..(Len(backbone) - 1)}

\* the colour of edge {u, v}: lines 142-146
EdgeColor(e, backbone) ==
    IF \E u, v \in e : e = {u, v} /\ <<u, v>> \in BackboneEdges(backbone)
    THEN Backbone ELSE Branch

NoFig(kind) ==
    [kind |-> kind, nodes |-> {}, edges |-> {}, backbone |-> <<>>, edge_colors |-> <<>>]

Figure(edges, backbone) ==
    [kind |-> "figure", nodes |-> GraphNodes(edges), edges |-> edges,
     backbone |-> backbone,
     edge_colors |-> [e \in edges |-> EdgeColor(e, backbone)]]

\* the figures plot_peak_diff_graph can return, or the exception it raises
plot_peak_diff_graph(df_assigned) ==
    LET edges == GraphEdges(df_assigned)
        nodes == GraphNodes(edges)
        paths == ShortestPaths(edges, SetMax(nodes), SetMin(nodes))
    IN  IF df_assigned = <<>> THEN {NoFig("empty figure")}
        ELSE IF nodes = {} THEN {NoFig("ValueError")}
        ELSE IF paths = {} THEN {NoFig("NetworkXNoPath")}
        ELSE {Figure(edges, backbone) : backbone \in paths}

\* ------------------------------------------------------------------------
\* The run of the app after "Analyse" (app.py, lines 143-212)
\* ------------------------------------------------------------------------
VARIABLES
    pc,         \* where the run stands
    df,         \* the app's peak table
    df_mono,    \* the app's reference table object
    frame,      \* the arguments and the intermediate table of preprocess_data
    args,       \* the arguments of analyse_spectrum
    out,        \* what analyse_spectrum returned
    fig         \* what the peak difference graph section produced

vars == <<pc, df, df_mono, frame, args, out, fig>>

NoFrame ==
    [df_in |-> <<>>, df_thresholded |-> <<>>, threshold |-> 0,
     m_z_range |-> <<0, 0>>, isotope_tol |-> 0]

NoArgs == [mass_tol |-> 0, length |-> 0, use_mods |-> FALSE, use_b_y |-> FALSE]

NoOut ==
    [status |-> "", df_diffs |-> <<>>, df_diffs_assigned |-> <<>>,
     df_diffs_unassigned |-> <<>>, df_unmatched |-> <<>>]

\* the bundled reference (mono.make_df_mono() without an uploaded file)
DefaultReference == <<RowA, RowB>>

RawPeaks == {Peak(m, i) : m \in RawMz, i \in Intensities}

Init ==
    /\ pc = "uploaded"
    /\ df \in SeqsUpTo(RawPeaks, MaxPeaks)
    /\ df_mono = Table(DefaultReference)
    /\ frame = NoFrame
    /\ args = NoArgs
    /\ out = NoOut
    /\ fig = NoFig("")

\* app.py:150: df = analysis.preprocess_data(df, threshold, m_z_range, isotope_tol)
PreprocessData ==
    /\ pc = "uploaded"
    /\ \E threshold \in ThresholdPcts, m_z_range \in Ranges, isotope_tol \in IsotopeTols :
         LET filtered == threshold_peaks(df, threshold, m_z_range)
         IN  /\ df' = prune_isotopes(filtered, isotope_tol)
             /\ frame' = [df_in |-> df, df_thresholded |-> filtered,
                          threshold |-> threshold, m_z_range |-> m_z_range,
                          isotope_tol |-> isotope_tol]
    /\ pc' = "preprocessed"
    /\ UNCHANGED <<df_mono, args, out, fig>>

\* app.py:153-167: the call of analyse_spectrum and the "No peaks found" stop
AnalyseSpectrum ==
    /\ pc = "preprocessed"
    /\ \E mass_tol \in MassTols, length \in 1..MaxLength, use_mods, use_b_y \in BOOLEAN :
         LET res == analyse_spectrum(df, df_mono, mass_tol, length, use_mods, use_b_y)
         IN  /\ args' = [mass_tol |-> mass_tol, length |-> length,
                         use_mods |-> use_mods, use_b_y |-> use_b_y]
             /\ out' = [status |-> res.status, df_diffs |-> res.df_diffs,
                        df_diffs_assigned |-> res.df_diffs_assigned,
                        df_diffs_unassigned |-> res.df_diffs_unassigned,
                        df_unmatched |-> res.df_unmatched]
             /\ df_mono' = res.df_mono
             /\ pc' = CASE res.status = "ok" -> "analysed"
                        [] res.status = "None" -> "no_peaks_found"
                        [] OTHER -> "raised"
    /\ UNCHANGED <<df, frame, fig>>

\* app.py:200-212: the peak difference graph section
ShowGraph ==
    /\ pc = "analysed"
    /\ LET n == Len(out.df_diffs_assigned)
       IN  IF n > GraphTooBig THEN fig' = NoFig("Graph too big") /\ pc' = "shown"
           ELSE IF n < 2 THEN fig' = NoFig("Graph is empty") /\ pc' = "shown"
           ELSE /\ fig' \in plot_peak_diff_graph(out.df_diffs_assigned)
                /\ pc' = IF fig'.kind \in {"ValueError", "NetworkXNoPath"}
                         THEN "raised" ELSE "shown"
    /\ UNCHANGED <<df, df_mono, frame, args, out>>

\* The preprocessing of an uploaded peak list.
Next == PreprocessData

Spec == Init /\ [][Next]_vars

\* The analysis of a preprocessed spectrum against a reference table: the
\* states after app.py:150 for peak lists of distinct masses in ascending
\* order, all of one intensity.
SpectrumTables ==
    {SortedByMz([i \in 1..Cardinality(S) |->
                    Peak(CHOOSE m \in S : Cardinality({x \in S : x < m}) = i - 1, 1)]) :
        S \in {T \in SUBSET SpectrumMz : Cardinality(T) <= MaxSpectrumPeaks}}

InitAn ==
    /\ pc = "preprocessed"
    /\ \E raw \in SpectrumTables, isotope_tol \in IsotopeTols :
         LET threshold == SetMin(ThresholdPcts)
             m_z_range == <<SetMin(SpectrumMz), SetMax(SpectrumMz)>>
             filtered == threshold_peaks(raw, threshold, m_z_range)
         IN  /\ df = prune_isotopes(filtered, isotope_tol)
             /\ frame = [df_in |-> raw, df_thresholded |-> filtered,
                         threshold |-> threshold, m_z_range |-> m_z_range,
                         isotope_tol |-> isotope_tol]
    /\ df_mono \in {Table(rows) : rows \in References}
    /\ args = NoArgs
    /\ out = NoOut
    /\ fig = NoFig("")

NextAn == AnalyseSpectrum \/ ShowGraph

SpecAn == InitAn /\ [][NextAn]_vars

\* ------------------------------------------------------------------------
\* Properties of the Peak Preprocessor (checked under Spec)
\* ------------------------------------------------------------------------
Preprocessed == pc = "preprocessed"

\* C1: any two distinct peaks of the output of preprocess_data have m/z
\* values at least isotope_tol apart.
C1_OutputPairwiseApart ==
    Preprocessed =>
        \A i, j \in DOMAIN df :
            i # j => Abs(df[i].mz - df[j].mz) >= frame.isotope_tol

\* a run in which isotope collapsing dropped a peak and kept at least two
C1_Witness ==
    /\ Preprocessed
    /\ Len(df) >= 2
    /\ \E k \in DOMAIN frame.df_thresholded :
          \A i \in DOMAIN df : df[i].mz # frame.df_thresholded[k].mz

\* C9: for the same peak list and range, the peaks that pass the filter at a
\* threshold t2 >= threshold are among those that passed at threshold, and
\* are no more numerous.
C9_ThresholdMonotonic ==
    Preprocessed =>
        \A t2 \in ThresholdPcts :
            t2 >= frame.threshold =>
                LET at_t2 == threshold_peaks(frame.df_in, t2, frame.m_z_range)
                IN  /\ Range(at_t2) \subseteq Range(frame.df_thresholded)
                    /\ Len(at_t2) <= Len(frame.df_thresholded)

\* a run whose filter kept peaks that a higher threshold removes
C9_Witness ==
    /\ Preprocessed
    /\ \E t2 \in ThresholdPcts :
          /\ t2 > frame.threshold
          /\ Len(threshold_peaks(frame.df_in, t2, frame.m_z_range)) > 0
          /\ Len(threshold_peaks(frame.df_in, t2, frame.m_z_range))
                < Len(frame.df_thresholded)

\* the charge the specification gives the peak at row i of the sorted,
\* filtered table s: the smallest z whose 1/z fits every gap between
\* successive peaks of its cluster, 1 when there is none
SpecifiedCharge(s, i, isotope_tol) ==
    LET last == SetMax({i} \cup Scanned(s, i, isotope_tol))
        gaps == {s[k + 1].mz - s[k].mz : k \in i..(last - 1)}
        fits == {z \in 1..MaxCharge : \A d \in gaps : ChargeFits(z, d)}
    IN  IF fits = {} THEN 1 ELSE SetMin(fits)

\* C10: every peak of the output of preprocess_data carries a charge state in
\* 1..5, the smallest z that fits the gaps of its cluster, and 1 for a peak
\* without neighbours, the highest-mass peak included.
C10_ChargeStateInferred ==
    Preprocessed =>
        LET s == SortedByMz(frame.df_thresholded)
        IN  \A i \in DOMAIN df :
                LET k == SetMin({h \in DOMAIN s : s[h].mz = df[i].mz})
                IN  /\ df[i].ChargeState \in 1..MaxCharge
                    /\ df[i].ChargeState = SpecifiedCharge(s, k, frame.isotope_tol)

\* the m/z values of the output of preprocess_data
OutputMz == {df[i].mz : i \in DOMAIN df}

\* the m/z values that passed the threshold/range filter
FilteredMz == {frame.df_thresholded[k].mz : k \in DOMAIN frame.df_thresholded}

\* C11 as claimed: every peak that passes the filter and is absent from the
\* output lies strictly within isotope_tol of a peak of lower m/z that is
\* present in the output.
C11_DroppedNearKeptPeak ==
    Preprocessed =>
        \A m \in FilteredMz \ OutputMz :
            \E kept \in OutputMz : kept < m /\ m - kept < frame.isotope_tol

\* C11: every peak that passes the filter and is absent from the output lies
\* strictly within isotope_tol of the next lower peak that passes the filter
\* (which may itself be absent), and below it there is a peak present in the
\* output from which the filtered peaks up to it follow each other at gaps
\* smaller than isotope_tol; the output holds no peak that did not pass the
\* filter, and the lowest filtered peak is always present.
C11_DroppedNearLowerFilteredPeak ==
    Preprocessed =>
        /\ OutputMz \subseteq FilteredMz
        /\ FilteredMz # {} => SetMin(FilteredMz) \in OutputMz
        /\ \A m \in FilteredMz \ OutputMz :
              /\ LET below == SetMax({x \in FilteredMz : x < m})
                 IN  m - below < frame.isotope_tol
              /\ \E kept \in OutputMz :
                    /\ kept < m
                    /\ \A x \in FilteredMz :
                          (kept < x /\ x <= m) =>
                              x - SetMax({y \in FilteredMz : y < x}) < frame.isotope_tol

\* a run that dropped a peak which is isotope_tol or more above every peak
\* it kept
C11_Witness ==
    /\ Preprocessed
    /\ \E m \in FilteredMz \ OutputMz :
          \A kept \in OutputMz : kept < m => m - kept >= frame.isotope_tol

\* ------------------------------------------------------------------------
\* Properties of the analysis (checked under SpecAn)
\* ------------------------------------------------------------------------
\* analyse_spectrum has been called
Called == pc \in {"analysed", "no_peaks_found", "raised"}

\* analyse_spectrum has returned its tables
Analysed == pc \in {"analysed", "shown"} \/ (pc = "raised" /\ out.status = "ok")

\* the reference rows of the run that was made
RunReference == LocalReference(df_mono.rows, args.use_mods, args.use_b_y)

\* C2: no record is matched to a reference entry that is mass_tol or more
\* away from its delta, and every record whose delta has a reference entry
\* strictly within mass_tol is assigned.
C2_ExclusiveTolerance ==
    Analysed =>
        \A i \in DOMAIN out.df_diffs :
            LET rec == out.df_diffs[i]
            IN  /\ (rec.AssignedMass # 0 /\ rec.Length = 1)
                      => Abs(rec.AssignedMass - rec.PeakDifference) < args.mass_tol
                /\ (\E k \in DOMAIN RunReference :
                        Abs(RunReference[k].mz - rec.PeakDifference) < args.mass_tol)
                      => rec.AssignedMass # 0

\* the unordered pairs of rows of the peak table
RowPairs == {pr \in (DOMAIN df) \X (DOMAIN df) : pr[1] < pr[2]}

\* C5: the difference table has exactly C(n,2) records, one for each unordered
\* pair of distinct peaks whether or not it matched, each with
\* delta = |peak1 - peak2|.
C5_OneRecordPerPair ==
    (Analysed /\ Len(df) >= 2) =>
        /\ 2 * Len(out.df_diffs) = Len(df) * (Len(df) - 1)
        /\ Len(out.df_diffs_assigned) + Len(out.df_diffs_unassigned) = Len(out.df_diffs)
        /\ \A pr \in RowPairs :
              Cardinality({i \in DOMAIN out.df_diffs :
                  {out.df_diffs[i].Peak1, out.df_diffs[i].Peak2}
                      = {df[pr[1]].mz, df[pr[2]].mz}}) = 1
        /\ \A i \in DOMAIN out.df_diffs :
              out.df_diffs[i].PeakDifference
                  = Abs(out.df_diffs[i].Peak1 - out.df_diffs[i].Peak2)

\* a run on four peaks with matched and unmatched pairs
C5_Witness ==
    /\ Analysed
    /\ Len(df) = 4
    /\ Len(out.df_diffs_assigned) >= 1
    /\ Len(out.df_diffs_unassigned) >= 1

\* C7: "no peaks found" is signalled exactly when no peak survives the
\* threshold/range filter, and a run with at least one preprocessed peak
\* returns its tables (stated for the runs against a reference that has
\* entries).
C7_NoPeaksFoundIffNoneSurvive ==
    (Called /\ df_mono.rows # <<>>) =>
        /\ (pc = "no_peaks_found") <=> (Len(frame.df_thresholded) = 0)
        /\ Len(df) >= 1 => out.status = "ok"

\* a new run on the same peaks, reference rows, tolerance and flags with
\* chain length L
RunAt(L) ==
    analyse_spectrum(df, Table(df_mono.rows), args.mass_tol, L,
                     args.use_mods, args.use_b_y)

\* the record of the reference entry of that name, direct match of delta
IsDirectMatch(rec) ==
    /\ rec.Length = 1
    /\ \E k \in DOMAIN RunReference :
          /\ RunReference[k].Name = rec.Assigned
          /\ RunReference[k].mz = rec.AssignedMass
          /\ Abs(RunReference[k].mz - rec.PeakDifference) < args.mass_tol

\* C3: at max_length = 1 the assigned records are exactly the direct reference
\* matches, and every record assigned at max_length = L1 is assigned, with the
\* same assignment, at every L2 >= L1.
C3_ChainsOnlyAdd ==
    Analysed =>
        /\ args.length = 1 =>
              /\ \A i \in DOMAIN out.df_diffs_assigned :
                    IsDirectMatch(out.df_diffs_assigned[i])
              /\ out.df_diffs_assigned
                    = SelectSeq(sort_values(compute_differences(df, RunReference, args.mass_tol),
                                            "AssignedMass", FALSE), IsAssigned)
        /\ out.df_diffs_assigned # <<>> =>
              \A L2 \in args.length..MaxLength :
                  LET longer == RunAt(L2)
                  IN  /\ longer.status = "ok"
                      /\ Range(out.df_diffs_assigned) \subseteq Range(longer.df_diffs_assigned)

\* a run at max_length = 2 that assigned a chain of two units and left a
\* record unassigned that a run at a larger max_length assigns
C3_Witness ==
    /\ Analysed
    /\ args.length = 2
    /\ \E i \in DOMAIN out.df_diffs_assigned : out.df_diffs_assigned[i].Length = 2
    /\ \E L2 \in 3..MaxLength :
          Len(RunAt(L2).df_diffs_assigned) > Len(out.df_diffs_assigned)

\* C8: when a run returns, the peak table and the reference table it was
\* given are as they were before the call (stated for the runs against a
\* reference that has entries).
C8_RunLeavesInputsUnchanged ==
    [][(pc = "preprocessed" /\ pc' \in {"analysed", "no_peaks_found"} /\ df_mono.rows # <<>>)
          => (df' = df /\ df_mono' = df_mono)]_vars

\* ------------------------------------------------------------------------
\* Properties of the Backbone Extractor (checked under SpecAn)
\* ------------------------------------------------------------------------
\* the peak difference graph section has called plot_peak_diff_graph
Plotted == fig.kind \in {"figure", "empty figure", "ValueError", "NetworkXNoPath"}

\* the graph of the assigned records that are not modifications
G == {{out.df_diffs_assigned[i].Peak1, out.df_diffs_assigned[i].Peak2} :
        i \in {k \in DOMAIN out.df_diffs_assigned :
                  out.df_diffs_assigned[k].Type # "Modification"}}

Connected(edges, a, b) == AnySimplePaths(edges, a, b) # {}

\* C4: when the graph has a path between its minimum-mass and maximum-mass
\* nodes, the backbone starts at one and ends at the other, repeats no node,
\* walks along edges of the graph, has the fewest edges of all paths between
\* the two, and exactly its edges are tagged backbone, all others branch.
C4_BackboneIsShortestPath ==
    (Plotted /\ G # {}) =>
        LET lo == SetMin(UNION G)
            hi == SetMax(UNION G)
            p == fig.backbone
            all == AnySimplePaths(G, lo, hi)
        IN  all # {} =>
            /\ fig.kind = "figure"
            /\ fig.edges = G
            /\ Len(p) >= 2
            /\ {p[1], p[Len(p)]} = {lo, hi}
            /\ \A i, j \in DOMAIN p : i # j => p[i] # p[j]
            /\ \A i \in 1..(Len(p) - 1) : {p[i], p[i + 1]} \in G
            /\ \A q \in all : Len(p) <= Len(q)
            /\ \A e \in G :
                  fig.edge_colors[e] =
                      IF \E i \in 1..(Len(p) - 1) : e = {p[i], p[i + 1]}
                      THEN Backbone ELSE Branch

\* a figure whose backbone has two edges or more, with a branch edge and a
\* longer path between the two extreme nodes
C4_Witness ==
    /\ fig.kind = "figure"
    /\ Len(fig.backbone) >= 3
    /\ \E e \in fig.edges : fig.edge_colors[e] = Branch
    /\ \E q \in AnySimplePaths(G, SetMin(UNION G), SetMax(UNION G)) :
          Len(q) > Len(fig.backbone)

\* C6: when the minimum-mass and maximum-mass nodes of a non-empty graph are
\* in different components, nothing is raised, the graph is produced and all
\* its edges are tagged branch.
C6_NoBackboneIsGraceful ==
    (Plotted /\ G # {} /\ ~Connected(G, SetMin(UNION G), SetMax(UNION G))) =>
        /\ pc # "raised"
        /\ fig.kind = "figure"
        /\ fig.edges = G
        /\ fig.nodes = UNION G
        /\ \A e \in G : fig.edge_colors[e] = Branch


\* the names of the entries of the modification table
ModificationNames == {MODS[i].Name : i \in DOMAIN MODS}

\* the record was matched to an entry of the modification table
MatchedToModification(rec) == IsAssigned(rec) /\ rec.Assigned \in ModificationNames

\* C12: with modification matching enabled, every record matched to an entry
\* of the modification table carries kind "Modification"; no edge of the
\* drawn graph joins the two peaks of such a record, and every node of the
\* graph is a peak of some assigned record that is not matched to a
\* modification.
C12_ModificationsKeptOutOfGraph ==
    (fig.kind = "figure" /\ args.use_mods) =>
        LET recs == out.df_diffs_assigned
            sugars == {i \in DOMAIN recs : ~MatchedToModification(recs[i])}
        IN  /\ \A i \in DOMAIN recs :
                  MatchedToModification(recs[i]) => recs[i].Type = "Modification"
            /\ \A i \in DOMAIN recs :
                  MatchedToModification(recs[i]) =>
                      {recs[i].Peak1, recs[i].Peak2} \notin fig.edges
            /\ fig.nodes \subseteq UNION {{recs[i].Peak1, recs[i].Peak2} : i \in sugars}

\* what identifies a record of the difference table: its two peaks and delta
RecordKey(rec) == <<rec.Peak1, rec.Peak2, rec.PeakDifference>>

\* C13: for every non-empty difference table (of a non-empty reference) and
\* every max_length the assigner completes, and the assigned and the unassigned set it returns are
\* disjoint, together hold exactly the records of the difference table, are
\* split by assigned mass # 0 against = 0, and every nonzero assigned mass
\* is strictly within mass_tol of the record's delta.
C13_AssignerCompletesAndPartitions ==
    (Called /\ Len(df) >= 2 /\ df_mono.rows # <<>>) =>
        LET assigned == out.df_diffs_assigned
            unassigned == out.df_diffs_unassigned
            input == compute_differences(df, RunReference, args.mass_tol)
            Keys(recs) == {RecordKey(recs[i]) : i \in DOMAIN recs}
        IN  /\ out.status = "ok"
            /\ Keys(assigned) \cap Keys(unassigned) = {}
            /\ Keys(assigned) \cup Keys(unassigned) = Keys(input)
            /\ Len(assigned) + Len(unassigned) = Len(input)
            /\ \A i \in DOMAIN assigned :
                  /\ assigned[i].AssignedMass # 0
                  /\ Abs(assigned[i].AssignedMass - assigned[i].PeakDifference) < args.mass_tol
            /\ \A i \in DOMAIN out.df_diffs :
                  out.df_diffs[i].AssignedMass = 0 <=>
                      RecordKey(out.df_diffs[i]) \in Keys(unassigned)

====
